---- MODULE Spec2Model ----
(***************************************************************************)
(* Model of icarus/moedit.py: class MOEdit, which adds the MO class and a  *)
(* generated id to the elements of an XHTML text (add_mo_attributes) and   *)
(* removes them again (remove_mo_attributes).                              *)
(*                                                                         *)
(* A text is modelled by its form and by the start tags of its elements in *)
(* document order (the order of soup.find_all()): each element is a tag    *)
(* name and an attrs dictionary over the keys "id" and "class", the only   *)
(* attributes the code reads or writes.  An id is a sequence of symbols,   *)
(* a class attribute is a list of tokens.                                  *)
(***************************************************************************)
EXTENDS Integers, Sequences, FiniteSets, TLC

(***************************************************************************)
(* Bounds of the model.                                                    *)
(***************************************************************************)
MaxElems == 2       \* elements per text, single-call specification
SeqMaxElems == 2    \* elements per text, call-sequence specification
MaxCalls == 3       \* calls in a row, call-sequence specification

(***************************************************************************)
(* Configuration: the fields stored by MOEdit.__init__.                    *)
(***************************************************************************)
tags == {"p"}
mo_class == "mo"
nomo_class == "nomo"

Digits == <<"0", "1", "2", "3", "4", "5", "6", "7", "8", "9">>

DigitSet == {Digits[j] : j \in 1..10}

RECURSIVE Decimal(_)
\* "%d" % (i) for i >= 0, one symbol per digit
Decimal(i) ==
    IF i < 10 THEN <<Digits[i + 1]>>
    ELSE Decimal(i \div 10) \o <<Digits[(i % 10) + 1]>>

\* self.id_format % (i), id_format = "mo_id_%d"
id_format(i) == <<"mo_id_">> \o Decimal(i)

\* self.id_pattern.match(s) is not None, id_regex = "^mo_id_\d+$"
id_pattern_match(s) ==
    /\ Len(s) >= 2
    /\ s[1] = "mo_id_"
    /\ \A j \in 2..Len(s) : s[j] \in DigitSet

(***************************************************************************)
(* The attrs dictionary of an element.                                     *)
(***************************************************************************)
EmptyAttrs == [k \in {} |-> <<>>]

SetAttr(attrs, key, val) ==
    [k \in (DOMAIN attrs) \cup {key} |-> IF k = key THEN val ELSE attrs[k]]

DelAttr(attrs, key) == [k \in (DOMAIN attrs) \ {key} |-> attrs[k]]

SetNodeAttr(elem, key, val) ==
    [name |-> elem.name, attrs |-> SetAttr(elem.attrs, key, val)]

(***************************************************************************)
(* list(classes) of a Python set: the order of the tokens is the order of  *)
(* the hash table, which the code does not control.  ord is the order the  *)
(* running interpreter gives to all tokens; a call draws it freely.        *)
(***************************************************************************)
Tokens == {"mo", "nomo", "a"}

Orders ==
    {o \in [1..Cardinality(Tokens) -> Tokens] :
        \A t \in Tokens : \E j \in DOMAIN o : o[j] = t}

RECURSIVE ListOf(_, _)
ListOf(S, ord) ==
    IF ord = <<>> THEN <<>>
    ELSE (IF Head(ord) \in S THEN <<Head(ord)>> ELSE <<>>)
             \o ListOf(S, Tail(ord))

(***************************************************************************)
(* Helpers of MOEdit.                                                      *)
(***************************************************************************)
\* a class attribute held as one string is the list of that one token
get_classes(elem) ==
    IF "class" \in DOMAIN elem.attrs
    THEN {elem.attrs["class"][j] : j \in 1..Len(elem.attrs["class"])}
    ELSE {}

remove_id_attribute(elem) ==
    IF "id" \in DOMAIN elem.attrs
    THEN [name |-> elem.name, attrs |-> DelAttr(elem.attrs, "id")]
    ELSE elem

\* has_id_not_mo with the test of the match inverted
has_id_not_mo_inverted(elem) ==
    ("id" \in DOMAIN elem.attrs) /\ id_pattern_match(elem.attrs["id"])

has_id_not_mo(elem) ==
    ("id" \in DOMAIN elem.attrs) /\ ~id_pattern_match(elem.attrs["id"])

\* has_mo_id without the test of the pattern
has_mo_id_any(elem) == "id" \in DOMAIN elem.attrs

has_mo_id(elem) ==
    ("id" \in DOMAIN elem.attrs) /\ id_pattern_match(elem.attrs["id"])

has_mo_class(elem) == mo_class \in get_classes(elem)

has_nomo_class(elem) == nomo_class \in get_classes(elem)

\* add_mo_class writing the MO class over the classes of the element
add_mo_class_only(elem, ord) == SetNodeAttr(elem, "class", <<mo_class>>)

add_mo_class(elem, ord) ==
    SetNodeAttr(elem, "class", ListOf(get_classes(elem) \cup {mo_class}, ord))

remove_mo_class(elem, ord) ==
    LET classes == get_classes(elem) \ {mo_class}
    IN  IF Cardinality(classes) > 0
        THEN SetNodeAttr(elem, "class", ListOf(classes, ord))
        ELSE [name |-> elem.name, attrs |-> DelAttr(elem.attrs, "class")]

(***************************************************************************)
(* Texts.  form is "malformed" for a text the parser rejects, "raw" for a  *)
(* text as its author wrote it and "canonical" for a text written by the   *)
(* serializer; a raw text and its re-serialization are different strings.  *)
(***************************************************************************)
Malformed == [form |-> "malformed", elems |-> <<>>]

Parses(text) == text.form # "malformed"

\* gumbo_bs4.parse(data), then soup.find_all()
parse(text) == text.elems

\* soup.serialize_xhtml() and the rewriting of "></tag>" into "/>", which
\* touches no attribute
output_xhtml_code(soup) == [form |-> "canonical", elems |-> soup]

(***************************************************************************)
(* Log entries: (severity, message); the message is kept as its kind and   *)
(* the values formatted into it.                                           *)
(***************************************************************************)
Msg(sev, what, name, id, new_id) ==
    [sev |-> sev, what |-> what, name |-> name, id |-> id, new_id |-> new_id]

(***************************************************************************)
(* add_mo_attributes: the body of the loop for a node whose name is in     *)
(* tags, with i the value of the counter when the node is visited.         *)
(***************************************************************************)
\* the counter advanced only for the nodes that are not excluded
NextCounterSkipExcluded(i, node) == IF has_nomo_class(node) THEN i ELSE i + 1

\* the counter advanced only for the nodes that have no id yet
NextCounterSkipHasId(i, node) == IF "id" \in DOMAIN node.attrs THEN i ELSE i + 1

NextCounter(i, node) == i + 1

AddNode(node, i, ord) ==
    IF has_nomo_class(node) THEN node
    ELSE IF has_id_not_mo(node) THEN add_mo_class(node, ord)
    ELSE add_mo_class(SetNodeAttr(node, "id", id_format(i)), ord)

AddMsg(node, i) ==
    IF has_nomo_class(node)
    THEN Msg("WARN", "ignoring", node.name, <<>>, id_format(i))
    ELSE IF has_id_not_mo(node)
    THEN Msg("WARN", "not changing", node.name, node.attrs["id"], id_format(i))
    ELSE Msg("INFO", "setting id", node.name, <<>>, id_format(i))

RECURSIVE AddLoop(_, _, _, _, _)
AddLoop(soup, n, i, log, ord) ==
    IF n > Len(soup) THEN [soup |-> soup, msgs |-> log]
    ELSE IF soup[n].name \in tags
    THEN AddLoop([soup EXCEPT ![n] = AddNode(soup[n], i, ord)], n + 1,
                 NextCounter(i, soup[n]), Append(log, AddMsg(soup[n], i)), ord)
    ELSE AddLoop(soup, n + 1, i, log, ord)

\* i = 1 before the loop
FirstCounter == 1

(***************************************************************************)
(* remove_mo_attributes: the body of the loop for a node whose name is in  *)
(* tags.                                                                   *)
(***************************************************************************)
\* remove_mo_attributes without its early return
ShortCircuitNever(remove_class, remove_id) == FALSE

ShortCircuit(remove_class, remove_id) == (~remove_class) /\ (~remove_id)

\* the MO class removed whatever remove_class says
RemoveClassStepAlways(node, remove_class, ord) == remove_mo_class(node, ord)

RemoveClassStep(node, remove_class, ord) ==
    IF remove_class THEN remove_mo_class(node, ord) ELSE node

RemoveIdStep(node, remove_id) ==
    IF remove_id /\ has_mo_id(node) THEN remove_id_attribute(node) ELSE node

\* the loop body without the test of the MO class
RemoveNodeUngated(node, remove_class, remove_id, ord) ==
    RemoveIdStep(RemoveClassStep(node, remove_class, ord), remove_id)

RemoveNode(node, remove_class, remove_id, ord) ==
    IF has_mo_class(node)
    THEN RemoveIdStep(RemoveClassStep(node, remove_class, ord), remove_id)
    ELSE node

RemoveMsgs(node, remove_class, remove_id) ==
    IF has_mo_class(node)
    THEN (IF remove_class
          THEN <<Msg("INFO", "removed class", node.name, <<>>, <<>>)>>
          ELSE <<>>)
         \o (IF remove_id /\ has_mo_id(node)
             THEN <<Msg("INFO", "removed id", node.name, node.attrs["id"], <<>>)>>
             ELSE IF remove_id /\ has_id_not_mo(node)
             THEN <<Msg("WARN", "not removing", node.name, node.attrs["id"], <<>>)>>
             ELSE <<>>)
    ELSE <<>>

RECURSIVE RemoveLoop(_, _, _, _, _, _)
RemoveLoop(soup, n, log, remove_class, remove_id, ord) ==
    IF n > Len(soup) THEN [soup |-> soup, msgs |-> log]
    ELSE IF soup[n].name \in tags
    THEN RemoveLoop([soup EXCEPT ![n] =
                        RemoveNode(soup[n], remove_class, remove_id, ord)],
                    n + 1,
                    log \o RemoveMsgs(soup[n], remove_class, remove_id),
                    remove_class, remove_id, ord)
    ELSE RemoveLoop(soup, n + 1, log, remove_class, remove_id, ord)

(***************************************************************************)
(* State: the text first handed in, the text the host holds now, the calls *)
(* made so far with the text each one left, and what the last call         *)
(* returned or raised.                                                     *)
(***************************************************************************)
VARIABLES input, data, hist, outs, msgs, status, parseCalls, serializeCalls

vars == <<input, data, hist, outs, msgs, status, parseCalls, serializeCalls>>

Call(op, remove_class, remove_id) ==
    [op |-> op, remove_class |-> remove_class, remove_id |-> remove_id]

\* what a call that ran to its return statement leaves
Returned(call, log, out, parsed, serialized) ==
    /\ data' = out
    /\ msgs' = log
    /\ status' = "ok"
    /\ parseCalls' = parsed
    /\ serializeCalls' = serialized
    /\ hist' = Append(hist, call)
    /\ outs' = Append(outs, out)
    /\ UNCHANGED input

\* what a call leaves when gumbo_bs4.parse raises: nothing is returned
Raised(call) ==
    /\ status' = "ParseError"
    /\ msgs' = <<>>
    /\ parseCalls' = 1
    /\ serializeCalls' = 0
    /\ hist' = Append(hist, call)
    /\ outs' = Append(outs, data)
    /\ UNCHANGED <<input, data>>

add_mo_attributes(limit, ord) ==
    /\ Len(hist) < limit
    /\ IF Parses(data)
       THEN LET r == AddLoop(parse(data), 1, FirstCounter, <<>>, ord)
            IN  Returned(Call("annotate", FALSE, FALSE), r.msgs,
                         output_xhtml_code(r.soup), 1, 1)
       ELSE Raised(Call("annotate", FALSE, FALSE))

remove_mo_attributes(limit, remove_class, remove_id, ord) ==
    /\ Len(hist) < limit
    /\ IF ShortCircuit(remove_class, remove_id)
       THEN Returned(Call("deannotate", remove_class, remove_id), <<>>, data, 0, 0)
       ELSE IF Parses(data)
       THEN LET r == RemoveLoop(parse(data), 1, <<>>, remove_class, remove_id, ord)
            IN  Returned(Call("deannotate", remove_class, remove_id), r.msgs,
                         output_xhtml_code(r.soup), 1, 1)
       ELSE Raised(Call("deannotate", remove_class, remove_id))

(***************************************************************************)
(* Input texts.                                                            *)
(***************************************************************************)
CustomId == <<"custom">>
ToolId == <<"mo_id_", "7">>
NearToolId == <<"mo_id_", "7", "x">>

AttrsOver(ids, classes) ==
    {[id |-> i, class |-> c] : i \in ids, c \in classes}
        \cup {[id |-> i] : i \in ids}
        \cup {[class |-> c] : c \in classes}
        \cup {EmptyAttrs}

ElemsOver(names, ids, classes) ==
    {[name |-> nm, attrs |-> at] : nm \in names, at \in AttrsOver(ids, classes)}

TextsOver(elems, k) ==
    {[form |-> "raw", elems |-> d] : d \in UNION {[1..n -> elems] : n \in 0..k}}
        \cup {Malformed}

CallElems ==
    ElemsOver({"p"}, {CustomId, ToolId, NearToolId},
              {<<"mo">>, <<"nomo">>, <<"a">>, <<"nomo", "mo">>, <<"a", "mo">>})
        \cup ElemsOver({"div"}, {ToolId}, {<<"mo">>})

SeqElems ==
    ElemsOver({"p"}, {CustomId, ToolId}, {})
        \cup ElemsOver({"p"}, {}, {<<"a">>})
        \cup {[name |-> "p", attrs |-> [id |-> ToolId, class |-> <<"nomo", "mo">>]],
              [name |-> "div", attrs |-> [id |-> ToolId, class |-> <<"mo">>]]}

Start(texts) ==
    /\ input \in texts
    /\ data = input
    /\ hist = <<>>
    /\ outs = <<>>
    /\ msgs = <<>>
    /\ status = "ok"
    /\ parseCalls = 0
    /\ serializeCalls = 0

(***************************************************************************)
(* Spec: one call on any input text.                                       *)
(***************************************************************************)
Init == Start(TextsOver(CallElems, MaxElems))

Annotate == \E ord \in Orders : add_mo_attributes(1, ord)

Deannotate ==
    \E remove_class \in BOOLEAN, remove_id \in BOOLEAN, ord \in Orders :
        remove_mo_attributes(1, remove_class, remove_id, ord)

Next == Annotate \/ Deannotate

Spec == Init /\ [][Next]_vars

(***************************************************************************)
(* SpecSeq: up to MaxCalls calls in a row, each on the text the previous   *)
(* one left.                                                               *)
(***************************************************************************)
InitSeq == Start(TextsOver(SeqElems, SeqMaxElems))

AnnotateSeq == \E ord \in Orders : add_mo_attributes(MaxCalls, ord)

DeannotateSeq ==
    \E remove_class \in BOOLEAN, remove_id \in BOOLEAN, ord \in Orders :
        remove_mo_attributes(MaxCalls, remove_class, remove_id, ord)

NextSeq == AnnotateSeq \/ DeannotateSeq

SpecSeq == InitSeq /\ [][NextSeq]_vars

(***************************************************************************)
(* Vocabulary of the properties.                                           *)
(***************************************************************************)
Called == Len(hist) >= 1

Ok == status = "ok"

LastCall == hist[Len(hist)]

\* the text the last call was given
Before == IF Len(hist) = 1 THEN input ELSE outs[Len(hist) - 1]

Annotated == Called /\ Ok /\ LastCall.op = "annotate"

Deannotated == Called /\ Ok /\ LastCall.op = "deannotate"

Positions == DOMAIN Before.elems

SameAttr(e1, e2, key) ==
    /\ (key \in DOMAIN e1.attrs) <=> (key \in DOMAIN e2.attrs)
    /\ (key \in DOMAIN e1.attrs) => e1.attrs[key] = e2.attrs[key]

\* number of the elements with a name in tags among the first n
TagRank(elems, n) == Cardinality({m \in 1..n : elems[m].name \in tags})

Both == Call("deannotate", TRUE, TRUE)

Ann == Call("annotate", FALSE, FALSE)

\* C1: an element carrying the exclude class has the same class and id
\* attributes after annotate, and after deannotate with any flags, as before.
C1_ExcludedNeverMutated ==
    (Called /\ Ok) =>
        \A n \in Positions :
            has_nomo_class(Before.elems[n]) =>
                /\ SameAttr(Before.elems[n], data.elems[n], "class")
                /\ SameAttr(Before.elems[n], data.elems[n], "id")

\* C2 as stated: after annotate then deannotate(true, true), every id and every
\* class token of X is still on its element, and whatever annotate's output
\* lost is the MO class or an id that annotate had set.
C2_RoundTripKeepsAll ==
    (Len(hist) = 2 /\ hist = <<Ann, Both>> /\ Ok) =>
        \A n \in DOMAIN input.elems :
            LET x == input.elems[n]
                y == outs[1].elems[n]
                z == outs[2].elems[n]
            IN  /\ ("id" \in DOMAIN x.attrs) => SameAttr(x, z, "id")
                /\ get_classes(x) \subseteq get_classes(z)
                /\ (get_classes(y) \ get_classes(z)) \subseteq {mo_class}
                /\ (~SameAttr(y, z, "id")) => ~SameAttr(x, y, "id")

\* C2 amended: after annotate then deannotate(true, true), every id of X that
\* does not match the pattern and every class token of X other than the MO
\* class is still on its element, nothing is on an element that X did not have
\* there, what X lost is the MO class or an id matching the pattern, and no
\* element with a name in tags that is not excluded keeps the MO class or a
\* matching id.
C2_RoundTrip ==
    (Len(hist) = 2 /\ hist = <<Ann, Both>> /\ Ok) =>
        \A n \in DOMAIN input.elems :
            LET x == input.elems[n]
                z == outs[2].elems[n]
            IN  /\ z.name = x.name
                /\ has_id_not_mo(x) => SameAttr(x, z, "id")
                /\ (get_classes(x) \ {mo_class}) \subseteq get_classes(z)
                /\ get_classes(z) \subseteq get_classes(x)
                /\ ("id" \in DOMAIN z.attrs) => SameAttr(x, z, "id")
                /\ (x.name \in tags /\ ~has_nomo_class(x)) =>
                       (~has_mo_class(z) /\ ~has_mo_id(z))

C2_Witness ==
    /\ hist = <<Ann, Both>>
    /\ Ok
    /\ \E n \in DOMAIN input.elems :
          /\ has_id_not_mo(input.elems[n])
          /\ has_mo_class(outs[1].elems[n])
          /\ ~has_mo_class(outs[2].elems[n])
    /\ \E n \in DOMAIN input.elems :
          /\ "id" \notin DOMAIN input.elems[n].attrs
          /\ has_mo_id(outs[1].elems[n])
          /\ "id" \notin DOMAIN outs[2].elems[n].attrs

\* C3: annotate, deannotate(true, true), annotate gives every element the id
\* and the class attribute that the first annotate gave it.
C3_ReannotateSame ==
    (Len(hist) = 3 /\ hist = <<Ann, Both, Ann>> /\ Ok) =>
        \A n \in DOMAIN input.elems :
            /\ SameAttr(outs[1].elems[n], outs[3].elems[n], "id")
            /\ SameAttr(outs[1].elems[n], outs[3].elems[n], "class")

\* C4 as stated: an element with a name in tags and an id not matching the
\* pattern carries the MO class after annotate, and keeps its id through
\* annotate and through deannotate.
C4_ForeignIdAlwaysClassed ==
    (Called /\ Ok) =>
        \A n \in Positions :
            (Before.elems[n].name \in tags /\ has_id_not_mo(Before.elems[n])) =>
                /\ SameAttr(Before.elems[n], data.elems[n], "id")
                /\ LastCall.op = "annotate" => has_mo_class(data.elems[n])

\* C4 amended: an element with a name in tags and an id not matching the
\* pattern keeps its id through annotate and through deannotate with any
\* flags, and carries the MO class after annotate unless it carries the
\* exclude class.
C4_ForeignIdKept ==
    (Called /\ Ok) =>
        \A n \in Positions :
            (Before.elems[n].name \in tags /\ has_id_not_mo(Before.elems[n])) =>
                /\ SameAttr(Before.elems[n], data.elems[n], "id")
                /\ (LastCall.op = "annotate" /\ ~has_nomo_class(Before.elems[n]))
                       => has_mo_class(data.elems[n])

C4_Witness ==
    /\ Annotated
    /\ \E n \in Positions :
          /\ Before.elems[n].name \in tags
          /\ has_id_not_mo(Before.elems[n])
          /\ ~has_mo_class(Before.elems[n])
          /\ has_mo_class(data.elems[n])
          /\ data.elems[n].attrs["id"] = NearToolId

\* C5: annotate logs one entry per element with a name in tags, the j-th
\* naming idFormat(j); the k-th such element, unless excluded or carrying an
\* id not matching the pattern, ends with the id idFormat(k) and the MO class.
C5_CounterPerTagElement ==
    Annotated =>
        /\ Len(msgs) = TagRank(Before.elems, Len(Before.elems))
        /\ \A j \in DOMAIN msgs : msgs[j].new_id = id_format(j)
        /\ \A n \in Positions :
              LET b == Before.elems[n]
              IN  (b.name \in tags /\ ~has_nomo_class(b) /\ ~has_id_not_mo(b)) =>
                      /\ "id" \in DOMAIN data.elems[n].attrs
                      /\ data.elems[n].attrs["id"]
                             = id_format(TagRank(Before.elems, n))
                      /\ has_mo_class(data.elems[n])

C5_Witness ==
    /\ Annotated
    /\ Len(data.elems) = 2
    /\ has_nomo_class(Before.elems[1])
    /\ Before.elems[1].name \in tags
    /\ "id" \notin DOMAIN Before.elems[2].attrs
    /\ "id" \in DOMAIN data.elems[2].attrs
    /\ data.elems[2].attrs["id"] = <<"mo_id_", "2">>

\* C6 as stated: after deannotate with removeClass no element carries the MO
\* class; without removeClass every element that had it still has it.
C6_NoMoClassAnywhere ==
    Deannotated =>
        \A n \in Positions :
            /\ LastCall.remove_class => ~has_mo_class(data.elems[n])
            /\ (~LastCall.remove_class /\ has_mo_class(Before.elems[n]))
                   => has_mo_class(data.elems[n])

\* C6 amended: after deannotate with removeClass no element with a name in
\* tags carries the MO class; without removeClass every element that had it
\* still has it.
C6_NoMoClassOnTags ==
    Deannotated =>
        \A n \in Positions :
            /\ (LastCall.remove_class /\ data.elems[n].name \in tags)
                   => ~has_mo_class(data.elems[n])
            /\ (~LastCall.remove_class /\ has_mo_class(Before.elems[n]))
                   => has_mo_class(data.elems[n])

C6_Witness ==
    /\ Deannotated
    /\ LastCall.remove_class
    /\ Len(data.elems) = 2
    /\ Before.elems[1].name \in tags
    /\ get_classes(Before.elems[1]) = {"a", mo_class}
    /\ get_classes(data.elems[1]) = {"a"}
    /\ Before.elems[2].name \notin tags
    /\ has_mo_class(data.elems[2])

\* C7: deannotate leaves the class and id of every element without the MO
\* class as they were, and changes an id only by removing a matching id from
\* an element with a name in tags that carried the MO class, under removeId.
C7_GatedByMoClass ==
    Deannotated =>
        \A n \in Positions :
            LET b == Before.elems[n]
                a == data.elems[n]
            IN  /\ (~has_mo_class(b)) =>
                       (SameAttr(b, a, "class") /\ SameAttr(b, a, "id"))
                /\ (~SameAttr(b, a, "id")) =>
                       /\ b.name \in tags
                       /\ has_mo_class(b)
                       /\ has_mo_id(b)
                       /\ "id" \notin DOMAIN a.attrs
                       /\ LastCall.remove_id

C7_Witness ==
    /\ Deannotated
    /\ LastCall.remove_id
    /\ Len(data.elems) = 2
    /\ Before.elems[1].name \in tags
    /\ ~has_mo_class(Before.elems[1])
    /\ has_mo_id(Before.elems[1])
    /\ has_mo_id(data.elems[1])
    /\ Before.elems[2].name \in tags
    /\ has_mo_class(Before.elems[2])
    /\ has_mo_id(Before.elems[2])
    /\ "id" \notin DOMAIN data.elems[2].attrs

\* C8: deannotate with both flags false returns an empty log and the very text
\* it was given, calls neither the parser nor the serializer, and so returns
\* also on a text the parser rejects.
C8_ShortCircuit ==
    (Called /\ LastCall = Call("deannotate", FALSE, FALSE)) =>
        /\ Ok
        /\ msgs = <<>>
        /\ data = Before
        /\ parseCalls = 0
        /\ serializeCalls = 0

C8_Witness ==
    /\ Called
    /\ LastCall = Call("deannotate", FALSE, FALSE)
    /\ ~Parses(Before)
    /\ Ok
    /\ data = Malformed

\* the ids of the elements of a tree, in document order
IdsOf(soup) ==
    [n \in DOMAIN soup |->
        IF "id" \in DOMAIN soup[n].attrs THEN <<soup[n].attrs["id"]>> ELSE <<>>]

\* C9 as stated: there is a text X, the one handed in or any other input
\* text, for which annotating annotate(X) again gives some element another id
\* than annotate(X) gave it.
C9_SomeRerunDiffers ==
    \E X \in {input} \cup TextsOver(SeqElems, SeqMaxElems),
       o1 \in Orders, o2 \in Orders :
        /\ Parses(X)
        /\ LET once == AddLoop(parse(X), 1, FirstCounter, <<>>, o1).soup
               twice == AddLoop(once, 1, FirstCounter, <<>>, o2).soup
           IN  IdsOf(twice) # IdsOf(once)

\* C9 amended: annotate restarts its counter at 1 on every call, so annotating
\* annotate(X) again gives every element the id and the set of class tokens
\* that annotate(X) gave it.
C9_RerunSameIds ==
    \A k \in 2..Len(hist) :
        (hist[k - 1] = Ann /\ hist[k] = Ann /\ Ok) =>
            \A n \in DOMAIN input.elems :
                /\ SameAttr(outs[k - 1].elems[n], outs[k].elems[n], "id")
                /\ get_classes(outs[k - 1].elems[n]) = get_classes(outs[k].elems[n])

C9_Witness ==
    /\ hist = <<Ann, Ann>>
    /\ Ok
    /\ Len(input.elems) = 2
    /\ \A n \in 1..2 : "id" \notin DOMAIN input.elems[n].attrs
    /\ IdsOf(outs[1].elems) = <<<<id_format(1)>>, <<id_format(2)>>>>
    /\ IdsOf(outs[2].elems) = IdsOf(outs[1].elems)

\* C10 as stated: annotate leaves the id and the class attribute of an element
\* whose id does not match the pattern as they were.
C10_UserOwnedUntouched ==
    Annotated =>
        \A n \in Positions :
            has_id_not_mo(Before.elems[n]) =>
                /\ SameAttr(Before.elems[n], data.elems[n], "id")
                /\ SameAttr(Before.elems[n], data.elems[n], "class")

\* C10 amended: annotate leaves the id of an element whose id does not match
\* the pattern as it was; it leaves the class attribute as it was when the
\* element is excluded or its name is not in tags, and otherwise makes the
\* class tokens the former ones plus the MO class.
C10_UserOwnedIdKept ==
    Annotated =>
        \A n \in Positions :
            LET b == Before.elems[n]
                a == data.elems[n]
            IN  has_id_not_mo(b) =>
                    /\ SameAttr(b, a, "id")
                    /\ IF b.name \in tags /\ ~has_nomo_class(b)
                       THEN get_classes(a) = get_classes(b) \cup {mo_class}
                       ELSE SameAttr(b, a, "class")

C10_Witness ==
    /\ Annotated
    /\ \E n \in Positions :
          /\ Before.elems[n].name \in tags
          /\ Before.elems[n].attrs = [id |-> CustomId, class |-> <<"a">>]
          /\ data.elems[n].attrs["id"] = CustomId
          /\ get_classes(data.elems[n]) = {"a", mo_class}

====
